---- MODULE Spec2Model ----
(***************************************************************************)
(* Model of dash-radio-group.js: the <dash-radio-group> element            *)
(* (RadioGroup) and its <dash-radio-button> children (RadioButton).        *)
(*                                                                         *)
(* The group's children are a sequence of element nodes.  A node carries   *)
(* its tag name and the three attributes the code reads or writes: role,   *)
(* aria-checked and tabindex.  Attribute values are the strings the DOM    *)
(* stores; NULL stands for an absent attribute (getAttribute -> null) and  *)
(* node index 0 stands for the null a failed querySelector returns.        *)
(***************************************************************************)
EXTENDS Integers, Sequences, FiniteSets, TLC

\* ------------------------------------------------------------------ bounds
\* Largest number of child elements of a group.
MaxNodes == 3
\* Longest run of consecutive same-direction arrow keys that is tracked.
MaxRun == 4

\* --------------------------------------------------------------- constants
\* KEYCODE (dash-radio-group.js:26-32)
DOWN == 40
LEFT == 37
RIGHT == 39
SPACE == 32
UP == 38
\* Keys the code has no constant for (delivered by the host all the same).
HOME == 36
END == 35

NULL == "null"
RadioTag == "dash-radio-button"
OtherTag == "div"

VARIABLES
  nodes,            \* the group's child elements, in document order
  groupRole,        \* the group's own role attribute
  keydownListener,  \* the group listens for keydown
  clickListener,    \* the group listens for click
  activeElement,    \* index of the child holding keyboard focus, 0 if none
  lastOp,           \* history: the operation that ran last
  prevOp,           \* history: the operation that ran before it
  lastTarget,       \* history: the node the last operation was aimed at
  prevNodes,        \* history: nodes as they were before the last operation
  prev2Selected,    \* history: the items selected before the operation
                    \* that ran before the last one
  thrown,           \* history: the last operation ended in a TypeError
  focusLog,         \* history: the focus() calls of the last operation
  lastKey,          \* history: keyCode of the last event, 0 if it was no key
  run               \* history: the current run of consecutive arrow keys

vars == <<nodes, groupRole, keydownListener, clickListener, activeElement,
          lastOp, prevOp, lastTarget, prevNodes, thrown, focusLog, lastKey,
          prev2Selected, run>>

\* ------------------------------------------------------------------- nodes
\* Markup the host can supply for one child before any callback has run:
\* a <dash-radio-button> with or without aria-checked / tabindex, or some
\* other element that is no radio button.
HostNodes ==
  [tag : {RadioTag}, role : {NULL},
   ariaChecked : {NULL, "true", "false"}, tabindex : {NULL, "0", "-1"}]
  \cup
  [tag : {OtherTag}, role : {NULL}, ariaChecked : {NULL}, tabindex : {NULL}]

\* Children once every RadioButton has connected, with any flags.
ConnectedNodes ==
  [tag : {RadioTag}, role : {"radio"},
   ariaChecked : {"true", "false"}, tabindex : {"0", "-1"}]
  \cup
  [tag : {OtherTag}, role : {NULL}, ariaChecked : {NULL}, tabindex : {NULL}]

SeqsUpTo(S, n) == UNION {[1..k -> S] : k \in 0..n}

\* The first node, in document order, of a set of matches; 0 (null) if none.
FirstMatch(S) == IF S = {} THEN 0 ELSE CHOOSE i \in S : \A j \in S : i <= j

\* [role="radio"]
IsRadio(n) == n.role = "radio"

\* :first-of-type / :last-of-type -- no earlier / later sibling of that tag.
FirstOfType(ns, i) == \A j \in 1..(i - 1) : ns[j].tag # ns[i].tag
LastOfType(ns, i) == \A j \in (i + 1)..Len(ns) : ns[j].tag # ns[i].tag

\* querySelector('[role="radio"]')
QueryRadio(ns) == FirstMatch({i \in 1..Len(ns) : IsRadio(ns[i])})

\* Mutant of CheckedRadioButton: the last match instead of the first.
CheckedRadioButtonLast(ns) ==
  LET S == {i \in 1..Len(ns) : ns[i].ariaChecked = "true"}
  IN  IF S = {} THEN 0 ELSE CHOOSE i \in S : \A j \in S : j <= i

\* get checkedRadioButton: querySelector('[aria-checked="true"]')
CheckedRadioButton(ns) ==
  FirstMatch({i \in 1..Len(ns) : ns[i].ariaChecked = "true"})

\* get firstRadioButton: querySelector('[role="radio"]:first-of-type')
FirstRadioButton(ns) ==
  FirstMatch({i \in 1..Len(ns) : IsRadio(ns[i]) /\ FirstOfType(ns, i)})

\* Mutant of LastRadioButton: :last-child in place of :last-of-type.
LastRadioButtonLastChild(ns) ==
  IF Len(ns) > 0 /\ IsRadio(ns[Len(ns)]) THEN Len(ns) ELSE 0

\* get lastRadioButton: querySelector('[role="radio"]:last-of-type')
LastRadioButton(ns) ==
  FirstMatch({i \in 1..Len(ns) : IsRadio(ns[i]) /\ LastOfType(ns, i)})

\* Mutant of PrevRadioButton: the first radio before the node, not the
\* nearest one.
PrevRadioButtonFarthest(ns, i) ==
  FirstMatch({j \in 1..(i - 1) : IsRadio(ns[j])})

\* _prevRadioButton(node): walk previousElementSibling to a radio, else null.
PrevRadioButton(ns, i) ==
  LET S == {j \in 1..(i - 1) : IsRadio(ns[j])}
  IN  IF S = {} THEN 0 ELSE CHOOSE j \in S : \A k \in S : k <= j

\* Mutant of NextRadioButton: nextElementSibling, whatever its role.
NextSibling(ns, i) == IF i < Len(ns) THEN i + 1 ELSE 0

\* _nextRadioButton(node): walk nextElementSibling to a radio, else null.
NextRadioButton(ns, i) ==
  FirstMatch({j \in (i + 1)..Len(ns) : IsRadio(ns[j])})

\* RadioButton.connectedCallback: role=radio; tabindex and aria-checked keep
\* a value set by the user (any non-empty string is truthy) and default to
\* "-1" and "false".
RadioButtonConnected(n) ==
  [n EXCEPT !.role = "radio",
            !.tabindex = IF n.tabindex # NULL THEN n.tabindex ELSE "-1",
            !.ariaChecked = IF n.ariaChecked # NULL THEN n.ariaChecked
                            ELSE "false"]

\* Mutant of UncheckAll: aria-checked is reset, tabindex is forgotten.
UncheckAllKeepsTabindex(ns) ==
  [i \in 1..Len(ns) |->
     IF IsRadio(ns[i]) THEN [ns[i] EXCEPT !.ariaChecked = "false"] ELSE ns[i]]

\* _uncheckAll: every [role="radio"] gets aria-checked=false, tabindex=-1.
UncheckAll(ns) ==
  [i \in 1..Len(ns) |->
     IF IsRadio(ns[i])
     THEN [ns[i] EXCEPT !.ariaChecked = "false", !.tabindex = "-1"]
     ELSE ns[i]]

\* Mutant of CheckNode: aria-checked is set, tabindex is forgotten.
CheckNodeKeepsTabindex(ns, t) ==
  [ns EXCEPT ![t] = [@ EXCEPT !.ariaChecked = "true"]]

\* _checkNode(node): aria-checked=true, tabindex=0.
CheckNode(ns, t) ==
  [ns EXCEPT ![t] = [@ EXCEPT !.ariaChecked = "true", !.tabindex = "0"]]

\* _focusNode(node): node.focus().  The call is logged with the nodes as
\* they are when it is made.
FocusNode(ns, t) == [target |-> t, seen |-> ns]

\* Mutant of SetChecked: the other children are not unchecked first.
SetCheckedNoUncheck(ns, t) ==
  IF t = 0
  THEN [nodes |-> ns, focus |-> <<>>, thrown |-> TRUE]
  ELSE [nodes |-> CheckNode(ns, t),
        focus |-> <<FocusNode(CheckNode(ns, t), t)>>, thrown |-> FALSE]

\* Mutant of SetChecked: focus() is called before the node is checked.
SetCheckedFocusFirst(ns, t) ==
  IF t = 0
  THEN [nodes |-> UncheckAll(ns), focus |-> <<>>, thrown |-> TRUE]
  ELSE [nodes |-> CheckNode(UncheckAll(ns), t),
        focus |-> <<FocusNode(UncheckAll(ns), t)>>, thrown |-> FALSE]

\* _setChecked(node): _uncheckAll, _checkNode, _focusNode, in that order.
\* With node = null, _checkNode throws a TypeError after _uncheckAll ran.
SetChecked(ns, t) ==
  IF t = 0
  THEN [nodes |-> UncheckAll(ns), focus |-> <<>>, thrown |-> TRUE]
  ELSE LET cleared == UncheckAll(ns)
           checked == CheckNode(cleared, t)
       IN  [nodes |-> checked, focus |-> <<FocusNode(checked, t)>>,
            thrown |-> FALSE]

\* Mutant of PrevTarget: no wrap from the first button to the last.
PrevTargetNoWrap(ns) ==
  LET checkedButton == IF CheckedRadioButton(ns) # 0
                       THEN CheckedRadioButton(ns) ELSE FirstRadioButton(ns)
  IN  PrevRadioButton(ns, checkedButton)

\* _setCheckedToPrevButton: the node handed to _setChecked.
PrevTarget(ns) ==
  LET checkedButton == IF CheckedRadioButton(ns) # 0
                       THEN CheckedRadioButton(ns) ELSE FirstRadioButton(ns)
  IN  IF checkedButton = FirstRadioButton(ns)
      THEN LastRadioButton(ns)
      ELSE PrevRadioButton(ns, checkedButton)

\* Mutant of NextTarget: no wrap from the last button to the first.
NextTargetNoWrap(ns) ==
  LET checkedButton == IF CheckedRadioButton(ns) # 0
                       THEN CheckedRadioButton(ns) ELSE FirstRadioButton(ns)
  IN  NextRadioButton(ns, checkedButton)

\* Mutant of NextTarget: with nothing checked the first button is the target.
NextTargetFirstWhenNone(ns) ==
  IF CheckedRadioButton(ns) = 0
  THEN FirstRadioButton(ns)
  ELSE IF CheckedRadioButton(ns) = LastRadioButton(ns)
       THEN FirstRadioButton(ns)
       ELSE NextRadioButton(ns, CheckedRadioButton(ns))

\* _setCheckedToNextButton: the node handed to _setChecked.
NextTarget(ns) ==
  LET checkedButton == IF CheckedRadioButton(ns) # 0
                       THEN CheckedRadioButton(ns) ELSE FirstRadioButton(ns)
  IN  IF checkedButton = LastRadioButton(ns)
      THEN FirstRadioButton(ns)
      ELSE NextRadioButton(ns, checkedButton)

\* Mutant of ConnectedNodesAfter: _checkNode runs before _uncheckAll.
ConnectedNodesSwapped(ns) ==
  LET firstCheckedButton == CheckedRadioButton(ns)
  IN  IF firstCheckedButton # 0
      THEN UncheckAll(CheckNode(ns, firstCheckedButton))
      ELSE IF QueryRadio(ns) # 0
           THEN [ns EXCEPT ![QueryRadio(ns)] = [@ EXCEPT !.tabindex = "0"]]
           ELSE ns

\* RadioGroup.connectedCallback, its effect on the children: with a checked
\* child, _uncheckAll then _checkNode(firstCheckedButton); otherwise
\* tabindex=0 on querySelector('[role="radio"]'), a TypeError when that is
\* null.
ConnectedNodesAfter(ns) ==
  LET firstCheckedButton == CheckedRadioButton(ns)
  IN  IF firstCheckedButton # 0
      THEN CheckNode(UncheckAll(ns), firstCheckedButton)
      ELSE IF QueryRadio(ns) # 0
           THEN [ns EXCEPT ![QueryRadio(ns)] = [@ EXCEPT !.tabindex = "0"]]
           ELSE ns

ConnectedThrows(ns) == CheckedRadioButton(ns) = 0 /\ QueryRadio(ns) = 0

\* ------------------------------------------------------- derived vocabulary
\* Candidate items: the children with role=radio, in document order.
Candidates(ns) == {i \in 1..Len(ns) : IsRadio(ns[i])}
Selected(ns) == {i \in Candidates(ns) : ns[i].ariaChecked = "true"}
Focusable(ns) == {i \in Candidates(ns) : ns[i].tabindex = "0"}
\* The k-th candidate in document order (1-based).
Cand(ns, k) ==
  CHOOSE i \in Candidates(ns) :
    Cardinality({j \in Candidates(ns) : j <= i}) = k
\* The position of candidate i among the candidates.
Pos(ns, i) == Cardinality({j \in Candidates(ns) : j <= i})
NumCand(ns) == Cardinality(Candidates(ns))
Listening == keydownListener /\ clickListener

\* The run of consecutive arrow keys after an operation that is none.
NoRun(ns, afterAttach) ==
  [dir |-> "none", len |-> 0, visited |-> <<>>,
   start |-> FirstMatch(Selected(ns)), fresh |-> afterAttach]

\* The run after one more arrow key in direction d, pressed on nodes `before`.
\* visited lists the item found selected after each key of the run.
Extend(d, before) ==
  LET t == IF d = "next" THEN NextTarget(before) ELSE PrevTarget(before)
      now == FirstMatch(Selected(SetChecked(before, t).nodes))
  IN  IF run.dir \in {"none", d} /\ run.len < MaxRun
      THEN [run EXCEPT !.dir = d, !.len = @ + 1,
                       !.visited = Append(@, now)]
      ELSE [dir |-> d, len |-> 1, visited |-> <<now>>,
            start |-> FirstMatch(Selected(before)), fresh |-> FALSE]

\* ------------------------------------------------------------------ actions
Init ==
  /\ nodes \in SeqsUpTo(HostNodes, MaxNodes)
  /\ groupRole = NULL
  /\ keydownListener = FALSE
  /\ clickListener = FALSE
  /\ activeElement = 0
  /\ lastOp = "init"
  /\ prevOp = "init"
  /\ lastTarget = 0
  /\ prevNodes = nodes
  /\ prev2Selected = {}
  /\ thrown = FALSE
  /\ focusLog = <<>>
  /\ lastKey = 0
  /\ run = NoRun(nodes, FALSE)

\* The history every operation records.
Record(op, target) ==
  /\ prevOp' = lastOp
  /\ lastOp' = op
  /\ lastTarget' = target
  /\ prevNodes' = nodes
  /\ prev2Selected' = Selected(prevNodes)

\* customElements.define('dash-radio-button', ...) upgrades the radio
\* buttons in document order; each runs RadioButton.connectedCallback.
ButtonConnected(i) ==
  /\ nodes[i].tag = RadioTag
  /\ nodes[i].role = NULL
  /\ \A j \in 1..(i - 1) : nodes[j].tag = RadioTag => nodes[j].role # NULL
  /\ nodes' = [nodes EXCEPT ![i] = RadioButtonConnected(nodes[i])]
  /\ Record("connect-button", i)
  /\ thrown' = FALSE
  /\ focusLog' = <<>>
  /\ run' = NoRun(nodes', FALSE)
  /\ UNCHANGED <<groupRole, keydownListener, clickListener, activeElement>>

\* RadioGroup.connectedCallback.  The group is defined after the radio
\* button, so its children have connected when it runs.
Attach ==
  /\ \A i \in 1..Len(nodes) : nodes[i].tag = RadioTag => nodes[i].role # NULL
  /\ groupRole' = "radiogroup"
  /\ nodes' = ConnectedNodesAfter(nodes)
  /\ thrown' = ConnectedThrows(nodes)
  /\ keydownListener' = (keydownListener \/ ~ConnectedThrows(nodes))
  /\ clickListener' = (clickListener \/ ~ConnectedThrows(nodes))
  /\ Record("attach", 0)
  /\ focusLog' = <<>>
  /\ run' = NoRun(nodes', ~ConnectedThrows(nodes))
  /\ UNCHANGED activeElement

\* Mutant of Detach: only the keydown listener is removed.
DetachKeydownOnly ==
  /\ groupRole = "radiogroup"
  /\ keydownListener' = FALSE
  /\ Record("detach", 0)
  /\ thrown' = FALSE
  /\ focusLog' = <<>>
  /\ run' = NoRun(nodes, FALSE)
  /\ UNCHANGED <<nodes, groupRole, clickListener, activeElement>>

\* RadioGroup.disconnectedCallback.
Detach ==
  /\ groupRole = "radiogroup"
  /\ keydownListener' = FALSE
  /\ clickListener' = FALSE
  /\ Record("detach", 0)
  /\ thrown' = FALSE
  /\ focusLog' = <<>>
  /\ run' = NoRun(nodes, FALSE)
  /\ UNCHANGED <<nodes, groupRole, activeElement>>

\* The effect of a _setChecked(t) made by a handler.
Apply(r) ==
  /\ nodes' = r.nodes
  /\ thrown' = r.thrown
  /\ focusLog' = r.focus
  /\ activeElement' = IF r.focus = <<>> THEN activeElement
                      ELSE r.focus[Len(r.focus)].target

\* An event that reaches no listener, or that its handler ignores.
Ignored(op, target) ==
  /\ Record(op, target)
  /\ thrown' = FALSE
  /\ focusLog' = <<>>
  /\ run' = NoRun(nodes, FALSE)
  /\ UNCHANGED <<nodes, groupRole, keydownListener, clickListener,
                 activeElement>>

\* Mutant of KeyAction: Home and End move like the arrow keys.
KeyActionJumpKeysMove(keyCode) ==
  IF keyCode \in {UP, LEFT, HOME} THEN "prev"
  ELSE IF keyCode \in {DOWN, RIGHT, END} THEN "next"
  ELSE "ignore"

\* Mutant of KeyAction: Space moves to the next button.
KeyActionSpaceMoves(keyCode) ==
  IF keyCode \in {UP, LEFT} THEN "prev"
  ELSE IF keyCode \in {DOWN, RIGHT, SPACE} THEN "next"
  ELSE "ignore"

\* The switch of _onKeyDown: the case a keyCode falls into.
KeyAction(keyCode) ==
  IF keyCode \in {UP, LEFT} THEN "prev"
  ELSE IF keyCode \in {DOWN, RIGHT} THEN "next"
  ELSE "ignore"

\* The test of _onClick: e.target.getAttribute('role') === 'radio'.  The
\* group element itself (0) has role radiogroup.
ClickSelects(ns, target) == target # 0 /\ ns[target].role = "radio"

\* A keydown event dispatched to the group: _onKeyDown.
KeyDown(keyCode) ==
  IF ~keydownListener
  THEN Ignored("unheard", 0)
  ELSE IF KeyAction(keyCode) = "prev"
  THEN /\ Apply(SetChecked(nodes, PrevTarget(nodes)))
       /\ Record("prev", PrevTarget(nodes))
       /\ run' = Extend("prev", nodes)
       /\ UNCHANGED <<groupRole, keydownListener, clickListener>>
  ELSE IF KeyAction(keyCode) = "next"
  THEN /\ Apply(SetChecked(nodes, NextTarget(nodes)))
       /\ Record("next", NextTarget(nodes))
       /\ run' = Extend("next", nodes)
       /\ UNCHANGED <<groupRole, keydownListener, clickListener>>
  ELSE Ignored("key-ignored", 0)

\* A click event dispatched to the group: _onClick.  The target is a child
\* (1..Len(nodes)) or the group element itself (0).
Click(target) ==
  IF ~clickListener
  THEN Ignored("unheard", target)
  ELSE IF ClickSelects(nodes, target)
  THEN /\ Apply(SetChecked(nodes, target))
       /\ Record("click", target)
       /\ run' = NoRun(nodes', FALSE)
       /\ UNCHANGED <<groupRole, keydownListener, clickListener>>
  ELSE Ignored("click-ignored", target)

Keys == {UP, LEFT, DOWN, RIGHT, SPACE, HOME, END}

Next ==
  \/ \E i \in 1..Len(nodes) : ButtonConnected(i) /\ lastKey' = 0
  \/ Attach /\ lastKey' = 0
  \/ Detach /\ lastKey' = 0
  \/ \E k \in Keys : KeyDown(k) /\ lastKey' = k
  \/ \E t \in 0..Len(nodes) : Click(t) /\ lastKey' = 0

Spec == Init /\ [][Next]_vars

\* ------------------------------------------------- _setChecked on any flags
\* _setChecked(t) applied to children carrying any assignment of flags.
InitSelect ==
  /\ nodes \in SeqsUpTo(ConnectedNodes, MaxNodes)
  /\ groupRole = "radiogroup"
  /\ keydownListener = TRUE
  /\ clickListener = TRUE
  /\ activeElement = 0
  /\ lastOp = "init"
  /\ prevOp = "init"
  /\ lastTarget = 0
  /\ prevNodes = nodes
  /\ prev2Selected = {}
  /\ thrown = FALSE
  /\ focusLog = <<>>
  /\ lastKey = 0
  /\ run = NoRun(nodes, FALSE)

Select(t) ==
  /\ IsRadio(nodes[t])
  /\ Apply(SetChecked(nodes, t))
  /\ Record("select", t)
  /\ run' = NoRun(nodes', FALSE)
  /\ UNCHANGED <<groupRole, keydownListener, clickListener>>

NextSelect == \E t \in 1..Len(nodes) : Select(t) /\ lastKey' = 0

SpecSelect == InitSelect /\ [][NextSelect]_vars

\* ------------------------------------------------------------------- claims
AtMostOneSelected(ns) == Cardinality(Selected(ns)) <= 1
ExactlyOneFocusable(ns) == Cardinality(Focusable(ns)) = 1
FocusFollowsSelection(ns) == Selected(ns) # {} => Focusable(ns) = Selected(ns)

\* C1: while the group is attached (its key and click listeners are
\* registered), whatever arrow keys and clicks were delivered, at most one
\* candidate item has aria-checked="true".
C1_SingleSelection == Listening => AtMostOneSelected(nodes)

C1_Witness ==
  /\ Listening
  /\ lastOp = "click"
  /\ prevOp = "next"
  /\ NumCand(nodes) >= 2
  /\ Selected(prevNodes) # {}
  /\ Selected(nodes) = {lastTarget}
  /\ Selected(prevNodes) # Selected(nodes)

\* C2 (as claimed): in every state of an attached, non-empty group, whatever
\* flags the host supplied before attach, exactly one item has tabindex 0,
\* and it is the selected item whenever one is selected.
C2_RovingFocus ==
  (Listening /\ NumCand(nodes) >= 1) =>
     (ExactlyOneFocusable(nodes) /\ FocusFollowsSelection(nodes))

\* C3: _setChecked(target), target a candidate, from any assignment of the
\* flags, leaves target as the only selected and the only focusable item,
\* so that invariants 1-3 hold after it.
C3_SelectNormalises ==
  lastOp = "select" =>
     /\ Selected(nodes) = {lastTarget}
     /\ Focusable(nodes) = {lastTarget}
     /\ AtMostOneSelected(nodes)
     /\ ExactlyOneFocusable(nodes)
     /\ FocusFollowsSelection(nodes)

C3_Witness ==
  /\ lastOp = "select"
  /\ Cardinality(Selected(prevNodes)) >= 2
  /\ Cardinality(Focusable(prevNodes)) >= 2
  /\ lastTarget \notin Selected(prevNodes)
  /\ lastTarget \notin Focusable(prevNodes)
  /\ Selected(nodes) = {lastTarget}

\* C4: a next key while the last candidate is selected selects the first
\* candidate, a previous key while the first is selected selects the last,
\* and in a group of one candidate both select that candidate.
C4_WrapAround ==
  LET n == NumCand(prevNodes)
  IN  /\ (lastOp = "next" /\ n >= 1 /\ Selected(prevNodes) = {Cand(prevNodes, n)})
            => Selected(nodes) = {Cand(nodes, 1)}
      /\ (lastOp = "prev" /\ n >= 1 /\ Selected(prevNodes) = {Cand(prevNodes, 1)})
            => Selected(nodes) = {Cand(nodes, n)}
      /\ (lastOp \in {"next", "prev"} /\ n = 1)
            => Selected(nodes) = Candidates(nodes)

C4_Witness ==
  /\ lastOp = "next"
  /\ NumCand(nodes) = 3
  /\ Selected(prevNodes) = {Cand(prevNodes, 3)}
  /\ Selected(nodes) = {Cand(nodes, 1)}
  /\ lastTarget = Cand(nodes, 1)

\* C5: a next key while a candidate other than the last is selected selects
\* the candidate right after it, a previous key while a candidate other than
\* the first is selected selects the one right before it; the nodes between
\* candidates that are no candidates are skipped and never get selected.
C5_Step ==
  LET n == NumCand(prevNodes)
  IN  /\ \A c \in Candidates(prevNodes) :
            (lastOp = "next" /\ Selected(prevNodes) = {c} /\ Pos(prevNodes, c) < n)
               => Selected(nodes) = {Cand(nodes, Pos(prevNodes, c) + 1)}
      /\ \A c \in Candidates(prevNodes) :
            (lastOp = "prev" /\ Selected(prevNodes) = {c} /\ Pos(prevNodes, c) > 1)
               => Selected(nodes) = {Cand(nodes, Pos(prevNodes, c) - 1)}
      /\ \A i \in 1..Len(nodes) :
            (Listening /\ ~IsRadio(nodes[i])) =>
               (nodes[i].ariaChecked # "true" /\ nodes[i].tabindex # "0")
      /\ lastOp \in {"next", "prev"} => lastTarget \in Candidates(nodes)

C5_Witness ==
  /\ lastOp = "next"
  /\ Len(nodes) = 3
  /\ ~IsRadio(nodes[2])
  /\ Selected(prevNodes) = {1}
  /\ Selected(nodes) = {3}
  /\ nodes[2].ariaChecked = NULL

\* C6: attaching a non-empty group with nothing selected makes the first
\* candidate focusable and selects nothing; k next keys in a row from there
\* select candidate (k mod N) + 1 (B, C, then A for three items), and a
\* first previous key selects the last candidate.
C6_AttachUnselected ==
  LET n == NumCand(nodes)
  IN  /\ (lastOp = "attach" /\ NumCand(prevNodes) >= 1 /\ Selected(prevNodes) = {})
            => (Selected(nodes) = {} /\ Cand(nodes, 1) \in Focusable(nodes))
      /\ (run.fresh /\ run.start = 0 /\ run.dir = "next")
            => Selected(nodes) = {Cand(nodes, (run.len % n) + 1)}
      /\ (run.fresh /\ run.start = 0 /\ run.dir = "prev" /\ run.len = 1)
            => Selected(nodes) = {Cand(nodes, n)}

C6_Witness ==
  /\ run.fresh
  /\ run.start = 0
  /\ run.dir = "next"
  /\ run.len = 3
  /\ NumCand(nodes) = 3
  /\ Selected(nodes) = {Cand(nodes, 1)}
  /\ Focusable(nodes) = {Cand(nodes, 1)}

\* C7: a click on a candidate X makes X the only selected and the only
\* focusable item, whatever was selected before, and requests focus on X.
C7_Click ==
  lastOp = "click" =>
     /\ lastTarget \in Candidates(nodes)
     /\ Selected(nodes) = {lastTarget}
     /\ Focusable(nodes) = {lastTarget}
     /\ Len(focusLog) = 1
     /\ focusLog[1].target = lastTarget
     /\ activeElement = lastTarget

C7_Witness ==
  /\ lastOp = "click"
  /\ NumCand(nodes) = 3
  /\ Selected(prevNodes) = {Cand(prevNodes, 2)}
  /\ lastTarget = Cand(nodes, 3)
  /\ Selected(nodes) = {lastTarget}
  /\ Cand(nodes, 2) \notin Focusable(nodes)

C9_AttachIdempotent ==
  (lastOp = "attach" /\ prevOp = "attach") => nodes = prevNodes

C9_Witness ==
  /\ lastOp = "attach"
  /\ prevOp = "attach"
  /\ NumCand(nodes) >= 2
  /\ Selected(nodes) # {}
  /\ nodes = prevNodes

\* C10 (as claimed): attach on a group without candidates raises no error,
\* changes no child, and leaves the group listening for keys and clicks.
C10_EmptyAttach ==
  (lastOp = "attach" /\ NumCand(prevNodes) = 0) =>
     (~thrown /\ nodes = prevNodes /\ Listening)

\* C11: detach changes no child flag and removes both listeners, a second
\* detach leaves things as the first did, and while the group is detached a
\* key or click event changes no flag, calls focus() on nothing and raises
\* nothing.
C11_Detach ==
  /\ lastOp = "detach" =>
        (nodes = prevNodes /\ ~keydownListener /\ ~clickListener
         /\ focusLog = <<>> /\ ~thrown)
  /\ (~keydownListener /\ ~clickListener
      /\ lastOp \notin {"init", "connect-button", "attach", "detach"}) =>
        (lastOp = "unheard" /\ nodes = prevNodes /\ focusLog = <<>> /\ ~thrown)
  /\ keydownListener = clickListener

C11_Witness ==
  /\ lastOp = "unheard"
  /\ prevOp = "detach"
  /\ NumCand(nodes) >= 2
  /\ Selected(nodes) # {}
  /\ nodes = prevNodes
  /\ groupRole = "radiogroup"

Unchanged == nodes = prevNodes /\ focusLog = <<>> /\ ~thrown

\* C12: a key event of an attached group whose key is none of the four
\* arrow keys (Space included), and a click whose target is no candidate,
\* change no flag, call focus() on nothing and raise nothing.
C12_Unrecognized ==
  /\ (lastKey # 0 /\ lastKey \notin {UP, LEFT, DOWN, RIGHT}) =>
        (Unchanged /\ lastOp \in {"key-ignored", "unheard"})
  /\ (lastKey = 0 /\ lastOp \in {"click", "click-ignored", "unheard"}
      /\ (lastTarget = 0 \/ ~IsRadio(prevNodes[lastTarget]))) =>
        (Unchanged /\ lastOp \in {"click-ignored", "unheard"})

C12_Witness ==
  /\ lastOp = "key-ignored"
  /\ lastKey = SPACE
  /\ prevOp = "click-ignored"
  /\ Listening
  /\ Selected(nodes) # {}
  /\ NumCand(nodes) >= 2
  /\ nodes = prevNodes

C14_AttachSelected ==
  (lastOp = "attach" /\ Selected(prevNodes) # {}) =>
     /\ Selected(nodes) = {FirstMatch(Selected(prevNodes))}
     /\ Focusable(nodes) = {FirstMatch(Selected(prevNodes))}
     /\ ~thrown
     /\ Listening

C14_Witness ==
  /\ lastOp = "attach"
  /\ prevOp = "connect-button"
  /\ Len(nodes) = 3
  /\ Selected(prevNodes) = {2, 3}
  /\ Focusable(prevNodes) = {1, 3}
  /\ Selected(nodes) = {2}
  /\ Focusable(nodes) = {2}

\* C15: with item X selected in an attached group, a next key followed by a
\* previous key, and a previous key followed by a next key, end with X as
\* the selected and the focusable item again, across the wrap-around too.
C15_RoundTrip ==
  \A x \in Candidates(nodes) :
     (prev2Selected = {x}
      /\ <<prevOp, lastOp>> \in {<<"next", "prev">>, <<"prev", "next">>}) =>
        (Selected(nodes) = {x} /\ Focusable(nodes) = {x}
         /\ activeElement = x)

C15_Witness ==
  /\ prevOp = "next"
  /\ lastOp = "prev"
  /\ NumCand(nodes) = 3
  /\ prev2Selected = {Cand(nodes, 3)}
  /\ Selected(prevNodes) = {Cand(nodes, 1)}
  /\ Selected(nodes) = {Cand(nodes, 3)}

\* C16: on an attached non-empty group the node a next or previous key
\* hands to _setChecked is always a candidate, so no event ends in the state
\* where every item was cleared and none was set.
C16_NoPartialUpdate ==
  /\ lastOp \in {"next", "prev"} =>
        (lastTarget \in Candidates(nodes) /\ Selected(nodes) = {lastTarget}
         /\ Focusable(nodes) = {lastTarget})
  /\ lastOp \in {"next", "prev", "click"} => ~thrown
  /\ (Listening /\ NumCand(nodes) >= 1) => Focusable(nodes) # {}

C16_Witness ==
  /\ lastOp = "prev"
  /\ Len(nodes) = 3
  /\ ~IsRadio(nodes[3])
  /\ Selected(prevNodes) = {1}
  /\ lastTarget = 2
  /\ Selected(nodes) = {2}
  /\ ~thrown

\* C17: with item X selected in an attached group of N candidates, N next
\* keys in a row select every candidate exactly once and end on X, and so do
\* N previous keys in a row.
C17_FullCycle ==
  (run.dir \in {"next", "prev"} /\ run.start # 0
   /\ run.len = NumCand(nodes)) =>
     /\ Selected(nodes) = {run.start}
     /\ Len(run.visited) = NumCand(nodes)
     /\ {run.visited[k] : k \in 1..Len(run.visited)} = Candidates(nodes)

C17_Witness ==
  /\ run.dir = "prev"
  /\ run.len = 3
  /\ NumCand(nodes) = 3
  /\ run.start = Cand(nodes, 2)
  /\ run.visited = <<Cand(nodes, 1), Cand(nodes, 3), Cand(nodes, 2)>>
  /\ Selected(nodes) = {Cand(nodes, 2)}

====
